---- MODULE Spec2Model ----
(***************************************************************************)
(* Model of the compound-analysis dashboard (src/app.py).                  *)
(*                                                                         *)
(* One execution of the script is one render pass: it loads the dataset    *)
(* through the memoised load_data, resolves the sidebar selections, stops  *)
(* at the empty-selection guards, filters through the memoised             *)
(* get_filtered_data, builds the figure (pooled or per-screen), and then   *)
(* writes the colour guide, the summary and the data preview.  The script  *)
(* holds no lock between its cached calls: a pass is three steps (the      *)
(* load, the widgets and the filter, the drawing), a rerun can cut it      *)
(* short after a step, and the caches can change between the steps.        *)
(*                                                                         *)
(* Numeric cells of the CSV (concentration, average, SEM, STDEV) are       *)
(* decimals of four places, held as integers in units of 10^-4, so 0.1 is  *)
(* 1000 and 5.0 is 50000.  load_data turns them into float32 values; a     *)
(* float32 is named by its shortest decimal, and str(), the f-string       *)
(* formats and round(3) are computed on the binary value.  Figure          *)
(* x coordinates are held in tenths of a category slot, so that the        *)
(* x_pos - 0.2 and x_pos + 0.2 of a mean segment are exact.  Concentration *)
(* is a pivot key of the table and is never missing.                       *)
(***************************************************************************)
EXTENDS Integers, Sequences, FiniteSets, TLC

VARIABLES
    csv_file,               \* content of data/pivot_table_of_results.csv
    load_data_cache,        \* st.cache_data store of load_data: <<>> or <<df>>
    filter_cache,           \* st.cache_data store of get_filtered_data: key -> table
    data,                   \* the module-level `data` of the last pass
    selected_readout,       \* sidebar selectbox
    selected_compounds,     \* sidebar multiselect, in selection order
    measurement_options,    \* the checkboxes offered
    selected_measurements,  \* ticked checkboxes, in option order
    pool_screens,           \* "Pool all screenings" checkbox
    filter_ran,             \* get_filtered_data was called in the last pass
    filtered_data,          \* its result
    fig,                    \* <<>> or <<figure>>
    color_guide,            \* the "Compound Colors" entries
    summary,                \* <<>> or <<summary record>>
    show_data,              \* "Show filtered data" checkbox
    rows_per_page,          \* "Rows per page:" selectbox
    sort_by,                \* "Sort by:" selectbox
    page,                   \* "Page:" number input
    display_data,           \* the sorted table of the data preview
    preview,                \* <<>> or <<data preview record>>
    page_elements,          \* what the pass put on the page, in order
    status,                 \* how far the last pass that got to the widgets came
    n_loads,                \* how often load_data's body has run
    pc                      \* where the running script is: "idle" when none runs

vars == << csv_file, load_data_cache, filter_cache, data, selected_readout,
           selected_compounds, measurement_options, selected_measurements,
           pool_screens, filter_ran, filtered_data, fig, color_guide, summary,
           show_data, rows_per_page, sort_by, page, display_data, preview,
           page_elements, status, n_loads, pc >>

---------------------------------------------------------------------------
(* Bounds of the model                                                     *)

MaxRows == 2        \* rows of a generated dataset
MaxSel == 2         \* compounds picked in free click order
MaxCacheEntries == 1 \* entries the filter cache may hold
MaxReloadRows == 2  \* rows of a dataset in the reload specification
MaxLoads == 2       \* executions of load_data's body in the reload specification
MaxPageRows == 201   \* rows of the table in the pagination specification

---------------------------------------------------------------------------
(* Values and their orderings                                              *)

\* Python's order of the strings that occur (code-point order).
StrOrder ==
    << "A", "Amplitude", "Area Under the Curve", "B",
       "C01", "C02", "C03", "C04", "C05", "C06", "C07", "C08", "C09", "C10",
       "Falling Slope", "Foo", "Pulse Width 10%", "Pulse Width 50%",
       "Pulse Width 90%", "Rising Slope", "Triangulation",
       "calcium", "other", "voltage" >>

StrRank == [ s \in { StrOrder[i] : i \in 1..Len(StrOrder) } |->
                 CHOOSE i \in 1..Len(StrOrder) : StrOrder[i] = s ]

Rank(s) == StrRank[s]

MinOf(S) == CHOOSE m \in S : \A x \in S : m <= x

MaxOf(S) == CHOOSE m \in S : \A x \in S : x <= m

Min2(a, b) == IF a <= b THEN a ELSE b

Max2(a, b) == IF a >= b THEN a ELSE b

Range(s) == { s[i] : i \in 1..Len(s) }

\* sorted(<numbers>)
RECURSIVE SortedNum(_)
SortedNum(S) ==
    IF S = {} THEN << >>
    ELSE LET m == MinOf(S) IN << m >> \o SortedNum(S \ {m})

\* sorted(<strings>)
SortedStr(S) == SelectSeq(StrOrder, LAMBDA s : s \in S)

\* list.index(v): 0-based position of the first occurrence
IndexOf(s, v) ==
    (CHOOSE i \in 1..Len(s) : s[i] = v /\ \A j \in 1..(i - 1) : s[j] # v) - 1

Abs(n) == IF n < 0 THEN -n ELSE n

Pow10(n) == 10 ^ n

Pow2(n) == 2 ^ n

\* a / unit rounded to the nearest integer, ties to even (a >= 0)
RoundHalfEven(a, unit) ==
    LET q == a \div unit
        r == a % unit
    IN  IF 2 * r > unit \/ (2 * r = unit /\ q % 2 = 1) THEN q + 1 ELSE q

\* a float m / 2^k and what it differs by from the decimal it was read from
Float32 == [ m : Nat, k : Nat, rho : Int ]

\* a binary expansion mant / 2^k with the remainder r / 10^4 still to expand
Expansion == [ mant : Nat, r : Nat, k : Nat ]

\* binary expansion of (mant + r/10^4) * 2^k until the mantissa has 24 bits
Mantissa[mant \in Nat, r \in Nat, k \in Nat] ==
    IF mant >= Pow2(23) \/ (mant = 0 /\ r = 0)
    THEN [ mant |-> mant, r |-> r, k |-> k ]
    ELSE Mantissa[2 * mant + (IF 2 * r >= 10000 THEN 1 ELSE 0), (2 * r) % 10000, k + 1]

\* the 24-bit mantissa d rounded to nearest, ties to even
Nearest[d \in Expansion] ==
    IF 2 * d.r > 10000 \/ (2 * d.r = 10000 /\ d.mant % 2 = 1)
    THEN [ m |-> d.mant + 1, k |-> d.k, rho |-> 10000 - d.r ]
    ELSE [ m |-> d.mant, k |-> d.k, rho |-> 0 - d.r ]

\* pd.to_numeric(..., downcast='float'): the float32 nearest to v/10^4 (v >= 0),
\* as m / 2^k; it differs from v/10^4 by (rho / 2^k) / 10^4
to_float32[v \in Nat] == Nearest[Mantissa[v \div 10000, v % 10000, 0]]

\* two floats m / 2^k of the same value
SameValue[f \in Float32, g \in Float32] ==
    \/ f.m = g.m /\ f.k = g.k
    \/ f.m = 2 * g.m /\ f.k = g.k + 1
    \/ g.m = 2 * f.m /\ g.k = f.k + 1

\* two decimals that the column holds as the same float32
SameFloat32[v \in Nat, w \in Nat] == SameValue[to_float32[v], to_float32[w]]

\* (w + fr/E) / unit rounded to the nearest integer, ties to even
RoundScaled[w \in Nat, fr \in Nat, E \in Nat, unit \in Nat] ==
    IF 2 * ((w % unit) * E + fr) > unit * E
       \/ (2 * ((w % unit) * E + fr) = unit * E /\ (w \div unit) % 2 = 1)
    THEN (w \div unit) + 1 ELSE w \div unit

\* v + rho / E with the fraction kept apart
Exact[v \in Nat, rho \in Int, E \in Nat, unit \in Nat] ==
    RoundScaled[v + (rho \div E), rho % E, E, unit]

\* the float f held for v/10^4, times 10^4 / unit, rounded
RoundHeld[v \in Nat, f \in Float32, unit \in Nat] ==
    Exact[v, f.rho, Pow2(Min2(f.k, 14)), unit]

\* the float32 held for v/10^4, times 10^4 / unit, rounded to the nearest
\* integer, ties to even: what a correctly rounded decimal conversion of the
\* float gives (v >= 0, unit a power of ten up to 10^4)
RoundFloat32[v \in Nat, unit \in Nat] == RoundHeld[v, to_float32[v], unit]

\* m2 / 2^t rounded to the nearest integer, ties to even
Rint[m2 \in Nat, t \in Int] ==
    IF m2 = 0 \/ t >= 26 THEN 0
    ELSE IF t <= 0 THEN m2 * Pow2(0 - t)
    ELSE RoundHalfEven(m2, Pow2(t))

\* the product P / 2^k of the mantissa and 1000 as a float32, then rint
RintProduct[P \in Nat, s \in Nat, k \in Nat] ==
    Rint[RoundHalfEven(P, Pow2(s)), k - 3 - s]

\* m * 1000 = (m * 125) * 2^3
TimesThousand[f \in Float32] ==
    RintProduct[f.m * 125, IF f.m * 125 >= Pow2(30) THEN 7 ELSE 6, f.k]

\* np.round(x, 3) on a float32: rint(float32(x * 1000)), in thousandths (v >= 0)
RoundThousandths[v \in Nat] == TimesThousand[to_float32[v]]

\* a float32 m / 2^k with its sign, 2^23 <= |m| < 2^24 unless it is zero
Binary32 == [ m : Int, k : Int ]

Zero == [ m |-> 0, k |-> 0 ]

Sign(n) == IF n < 0 THEN -1 ELSE IF n > 0 THEN 1 ELSE 0

\* m / 2^k with the mantissa brought to 24 bits
Normal[m \in Int, k \in Int] ==
    IF m = 0 THEN Zero
    ELSE IF Abs(m) >= Pow2(24) THEN Normal[m \div 2, k - 1]
    ELSE IF Abs(m) < Pow2(23) THEN Normal[2 * m, k + 1]
    ELSE [ m |-> m, k |-> k ]

\* the bits a has above 24
BitsOver[a \in Nat] == IF a < Pow2(24) THEN 0 ELSE 1 + BitsOver[a \div 2]

\* M / 2^K with s bits dropped, to nearest, ties to even
Shifted[M \in Int, K \in Int, s \in Nat] ==
    Normal[Sign(M) * RoundHalfEven(Abs(M), Pow2(s)), K - s]

\* the float32 nearest to M / 2^K, ties to even
Round24[M \in Int, K \in Int] ==
    IF Abs(M) < Pow2(24) THEN Normal[M, K] ELSE Shifted[M, K, BitsOver[Abs(M)]]

\* the float32 the column holds for the decimal v
Held[v \in Int] ==
    Normal[Sign(v) * to_float32[Abs(v)].m, to_float32[Abs(v)].k]

\* q + (1 if anything was dropped): |m| / 2^sh doubled, the dropped bits kept
\* as one sticky bit
Sticky[m \in Nat, sh \in Nat] ==
    IF sh > 24 THEN 1
    ELSE 2 * (m \div Pow2(sh)) + (IF m % Pow2(sh) # 0 THEN 1 ELSE 0)

\* a + b in float32 for a.k <= b.k, neither zero: b is aligned to a with up
\* to g = 5 bits kept exactly and the rest as a sticky bit
AddAligned[a \in Binary32, b \in Binary32, g \in Nat] ==
    Round24[2 * a.m * Pow2(g) + Sign(b.m) * Sticky[Abs(b.m), b.k - a.k - g],
            a.k + g + 1]

\* a + b in float32 (round to nearest, ties to even)
Add[a \in Binary32, b \in Binary32] ==
    IF a.m = 0 THEN b
    ELSE IF b.m = 0 THEN a
    ELSE IF a.k <= b.k THEN AddAligned[a, b, Min2(b.k - a.k, 5)]
    ELSE AddAligned[b, a, Min2(a.k - b.k, 5)]

\* a / np.float32(n) in float32, for a count n below 16
DivCount[a \in Binary32, n \in 1..15] ==
    Round24[Sign(a.m) * (2 * ((Abs(a.m) * 64) \div n)
                         + (IF (Abs(a.m) * 64) % n # 0 THEN 1 ELSE 0)),
            a.k + 7]

Digit == << "0", "1", "2", "3", "4", "5", "6", "7", "8", "9" >>

RECURSIVE NatStr(_)
NatStr(n) == IF n < 10 THEN Digit[n + 1] ELSE NatStr(n \div 10) \o Digit[(n % 10) + 1]

\* n written with exactly w digits
RECURSIVE Padded(_, _)
Padded(n, w) == IF w = 0 THEN "" ELSE Padded(n \div 10, w - 1) \o Digit[(n % 10) + 1]

\* the digits of the integer c of j decimals: "12.5" for (125, 1), "3.0" for (3, 0)
Positional(c, j) ==
    IF j = 0 THEN NatStr(c) \o ".0"
    ELSE NatStr(c \div Pow10(j)) \o "." \o Padded(c % Pow10(j), j)

\* the least number of decimals whose nearest decimal is held as the same float32
ShortestDecimals[v \in Nat, j \in Nat] ==
    IF j >= 4 \/ SameFloat32[RoundFloat32[v, Pow10(4 - j)] * Pow10(4 - j), v]
    THEN j ELSE ShortestDecimals[v, j + 1]

\* the shortest decimal of a, of j decimals
ShortestOf[a \in Nat, j \in Nat] == Positional(RoundFloat32[a, Pow10(4 - j)], j)

\* str(c) of a numpy float32 (a >= 0): the shortest decimal that reads back as
\* the same float32, in scientific notation below 10^-4
StrOfAbs[a \in Nat] ==
    IF a = 0 THEN "0.0"
    ELSE IF a = 1 /\ to_float32[a].rho < 0 THEN "1e-04"
    ELSE ShortestOf[a, ShortestDecimals[a, 0]]

\* str(c) of a numpy float32
str_float32(v) == (IF v < 0 THEN "-" ELSE "") \o StrOfAbs[Abs(v)]

\* the shortest decimal of a, of j decimals, in units of 10^-4
CanonicalOf[a \in Nat, j \in Nat] == RoundFloat32[a, Pow10(4 - j)] * Pow10(4 - j)

\* pd.to_numeric(col, downcast='float'): the column holds float32 values; a
\* float32 is named by its shortest decimal, which is what str() prints
to_numeric_float(v) ==
    IF v < 0 THEN 0 - CanonicalOf[Abs(v), ShortestDecimals[Abs(v), 0]]
    ELSE CanonicalOf[v, ShortestDecimals[v, 0]]

\* q of d decimals, all of them written
FixedOf[q \in Nat, d \in Nat] ==
    NatStr(q \div Pow10(d)) \o "." \o Padded(q % Pow10(d), d)

\* f"{v:.<d>f}" of the float32
format_float32(v, d) ==
    (IF v < 0 THEN "-" ELSE "") \o FixedOf[RoundFloat32[Abs(v), Pow10(4 - d)], d]

\* Series.round(3) of a float32 column
round_float32(v) ==
    IF v < 0 THEN 0 - RoundThousandths[Abs(v)] * 10 ELSE RoundThousandths[v] * 10

---------------------------------------------------------------------------
(* The dataset                                                             *)

Row(ro, c, m, s, conc, avg, sem, sd) ==
    [ readout |-> ro, compound |-> c, measurement_name |-> m, screen |-> s,
      concentration |-> conc, average |-> avg, SEM |-> sem, STDEV |-> sd ]

\* Rows a generated CSV file is drawn from, in file order.
CandidateRows ==
    << Row("voltage", "A", "Rising Slope", 1, 10000, 62346, 2346, 4064),
       Row("voltage", "A", "Rising Slope", 1, 1000, 50000, 5000, 8660),
       Row("voltage", "A", "Rising Slope", 2, 1000, 70000, 3000, 5196),
       Row("voltage", "A", "Amplitude", 2, 100000, -30000, 1000, 1732),
       Row("voltage", "B", "Amplitude", 1, 1000, 20000, 2000, 3464),
       Row("voltage", "B", "Foo", 1, 10000, 10000, 1000, 1732),
       Row("calcium", "A", "Amplitude", 1, 1000, 40000, 1000, 1732),
       Row("calcium", "B", "Area Under the Curve", 2, 10000, 81234, 1234, 2137),
       Row("other", "B", "Foo", 3, 2500, 90000, 1000, 1732),
       Row("voltage", "A", "Rising Slope", 1, 1000, 55000, 4000, 6928) >>

\* the CSV line of a row: the pivot table's index column comes first
CsvLine(i, row) == [ index |-> i, row |-> row ]

\* the file holding the candidate rows picked by I, in file order
RECURSIVE CsvOf(_, _)
CsvOf(I, n) ==
    IF I = {} THEN << >>
    ELSE LET i == MinOf(I)
         IN  << CsvLine(n, CandidateRows[i]) >> \o CsvOf(I \ {i}, n + 1)

\* the files of 1..maxRows rows among the first `among` candidate rows
CsvFiles(among, maxRows) ==
    { CsvOf(I, 0) : I \in { J \in SUBSET (1..among) : Cardinality(J) \in 1..maxRows } }

\* colours of px.colors.qualitative.Set1
Set1 ==
    << "rgb(228,26,28)", "rgb(55,126,184)", "rgb(77,175,74)",
       "rgb(152,78,163)", "rgb(255,127,0)", "rgb(255,255,51)",
       "rgb(166,86,40)", "rgb(247,129,191)", "rgb(153,153,153)" >>

WideCompounds ==
    << "C01", "C02", "C03", "C04", "C05", "C06", "C07", "C08", "C09", "C10" >>

\* a file with one more compound than the palette has colours
WideCsv ==
    [ i \in 1..Len(WideCompounds) |->
        CsvLine(i - 1, Row("other", WideCompounds[i],
                           IF i <= Len(Set1) THEN "Foo" ELSE "Rising Slope",
                           1, 1000, 10000 * i, 1000, 1732)) ]

\* a table of n rows as display_data holds it, sorted by concentration
PageTable(n) ==
    [ i \in 1..n |->
        Row("voltage", "A", "Rising Slope", 1 + (i % 2), 10 * i,
            12345 + 7 * i, 2346, 4064) ]

\* The conversions are evaluated once for the numbers of these tables.
NumericCells(r) == { r.concentration, r.average, r.SEM, r.STDEV }

KnownNumbers ==
    UNION ({ NumericCells(CandidateRows[i]) : i \in 1..Len(CandidateRows) }
           \cup { NumericCells(WideCsv[i].row) : i \in 1..Len(WideCsv) }
           \cup { NumericCells(PageTable(MaxPageRows)[i]) : i \in 1..MaxPageRows })

DowncastOfKnown == [ v \in KnownNumbers |-> to_numeric_float(v) ]

StrOfKnown == [ v \in KnownNumbers |-> str_float32(v) ]

Format3OfKnown == [ v \in KnownNumbers |-> format_float32(v, 3) ]

Format1OfKnown == [ v \in KnownNumbers |-> format_float32(v, 1) ]

Round3OfKnown == [ v \in KnownNumbers |-> round_float32(v) ]

downcast_float(v) ==
    IF v \in KnownNumbers THEN DowncastOfKnown[v] ELSE to_numeric_float(v)

Str(v) == IF v \in KnownNumbers THEN StrOfKnown[v] ELSE str_float32(v)

FormatFixed(v, d) ==
    IF v \in KnownNumbers /\ d = 3 THEN Format3OfKnown[v]
    ELSE IF v \in KnownNumbers /\ d = 1 THEN Format1OfKnown[v]
    ELSE format_float32(v, d)

Round3(v) == IF v \in KnownNumbers THEN Round3OfKnown[v] ELSE round_float32(v)

\* load_data(): read the CSV, drop the unnamed index column and downcast the
\* numeric columns to float32
load_data(file) ==
    [ i \in 1..Len(file) |->
        [ file[i].row EXCEPT !.concentration = downcast_float(@),
                             !.average = downcast_float(@),
                             !.SEM = downcast_float(@),
                             !.STDEV = downcast_float(@) ] ]

\* get_filtered_data(readout, compounds, measurements), reading the global `data`
get_filtered_data(df, readout, compounds, measurements) ==
    LET InReadout(r) == r.readout = readout
        InCompounds(r) == r.compound \in Range(compounds)
        InMeasurements(r) == r.measurement_name \in Range(measurements)
        readout_data == SelectSeq(df, InReadout)
        compound_data == SelectSeq(readout_data, InCompounds)
    IN  SelectSeq(compound_data, InMeasurements)

Column(t, c) == { t[i][c] : i \in 1..Len(t) }

---------------------------------------------------------------------------
(* Selection resolution                                                    *)

calcium_measurements ==
    { "Rising Slope", "Falling Slope", "Pulse Width 50%", "Area Under the Curve" }

voltage_measurements ==
    { "Pulse Width 10%", "Pulse Width 50%", "Pulse Width 90%", "Rising Slope",
      "Falling Slope", "Triangulation", "Amplitude" }

readout_options(df) == SortedStr(Column(df, "readout"))

ReadoutData(df, readout) == SelectSeq(df, LAMBDA r : r.readout = readout)

compound_options(df, readout) == SortedStr(Column(ReadoutData(df, readout), "compound"))

CompoundData(df, readout, compounds) ==
    SelectSeq(ReadoutData(df, readout), LAMBDA r : r.compound \in Range(compounds))

all_measurement_options_of_readout(df, readout, compounds) ==
    Column(ReadoutData(df, readout), "measurement_name")

all_measurement_options(df, readout, compounds) ==
    Column(CompoundData(df, readout, compounds), "measurement_name")

allowed_measurements_any(df, readout, compounds) ==
    all_measurement_options(df, readout, compounds)

allowed_measurements(df, readout, compounds) ==
    IF readout = "calcium" THEN calcium_measurements
    ELSE IF readout = "voltage" THEN voltage_measurements
    ELSE all_measurement_options(df, readout, compounds)

MeasurementOptions(df, readout, compounds) ==
    SortedStr(all_measurement_options(df, readout, compounds)
              \cap allowed_measurements(df, readout, compounds))

---------------------------------------------------------------------------
(* Chart construction                                                      *)

\* sorted(filtered_data['screen'].unique())
available_screens(fd) == SortedNum(Column(fd, "screen"))

\* filtered_data['concentration'].unique(): order of first appearance
RECURSIVE Unique(_, _)
Unique(t, seen) ==
    IF t = << >> THEN << >>
    ELSE IF Head(t).concentration \in seen THEN Unique(Tail(t), seen)
    ELSE << Head(t).concentration >> \o
         Unique(Tail(t), seen \cup { Head(t).concentration })

all_concentrations_unsorted(fd) == Unique(fd, {})

\* sorted(filtered_data['concentration'].unique())
all_concentrations(fd) == SortedNum(Column(fd, "concentration"))

concentration_labels(fd) ==
    LET ac == all_concentrations(fd) IN [ i \in 1..Len(ac) |-> Str(ac[i]) ]

\* dict(zip(selected_compounds, Set1[:len(selected_compounds)]))
compound_colors(compounds) ==
    LET n == Min2(Len(compounds), Len(Set1))
    IN  [ c \in { compounds[i] : i \in 1..n } |-> Set1[IndexOf(compounds, c) + 1] ]

\* compound_colors[compound]; a missing key raises KeyError
KeyError == "KeyError"

ColorOf(colors, compound) ==
    IF compound \in DOMAIN colors THEN colors[compound] ELSE KeyError

ShowInLegendAlways(compound, legend_compounds) == TRUE

\* show_in_legend = compound not in legend_compounds
ShowInLegend(compound, legend_compounds) == compound \notin legend_compounds

\* all_concentrations.index(concentration), in tenths of a slot
XPos(concentrations, c) == 10 * IndexOf(concentrations, c)

\* the float32 values of the column 'average'
Averages(t) == [ i \in 1..Len(t) |-> Held[t[i].average] ]

\* res = 0.; for i in range(n): res += a[i]
AddInOrder[res \in Binary32, a \in Seq(Binary32)] ==
    IF a = << >> THEN res ELSE AddInOrder[Add[res, Head(a)], Tail(a)]

\* r[j] += a[i + j] for i = 8, 16, ... below n - n % 8: the j-th of the eight
\* partial sums of numpy's unrolled loop
Lane[r \in Binary32, a \in Seq(Binary32), i \in Nat, j \in 1..8] ==
    IF i >= Len(a) - (Len(a) % 8) THEN r
    ELSE Lane[Add[r, a[i + j]], a, i + 8, j]

\* the partial sums lo..hi added in pairs:
\* ((r[0] + r[1]) + (r[2] + r[3])) + ((r[4] + r[5]) + (r[6] + r[7]))
Lanes[a \in Seq(Binary32), lo \in 1..8, hi \in 1..8] ==
    IF lo = hi THEN Lane[a[lo], a, 8, lo]
    ELSE Add[Lanes[a, lo, (lo + hi) \div 2], Lanes[a, ((lo + hi) \div 2) + 1, hi]]

\* where numpy splits an array of more than 128 elements
SplitAt[n \in Nat] == (n \div 2) - ((n \div 2) % 8)

\* numpy's pairwise summation of a float32 array: in order below 8 elements,
\* eight partial sums up to 128 elements, halves above
pairwise_sum[a \in Seq(Binary32)] ==
    IF Len(a) < 8 THEN AddInOrder[Zero, a]
    ELSE IF Len(a) <= 128
    THEN AddInOrder[Lanes[a, 1, 8], SubSeq(a, Len(a) - (Len(a) % 8) + 1, Len(a))]
    ELSE Add[pairwise_sum[SubSeq(a, 1, SplitAt[Len(a)])],
             pairwise_sum[SubSeq(a, SplitAt[Len(a)] + 1, Len(a))]]

\* values.sum() of the float32 column 'average' (pandas nanmean, no value missing)
SumAverage(t) == pairwise_sum[Averages(t)]

\* conc_data['average'].mean(): the float32 sum divided by the count in float32
MeanValue(conc_data) == DivCount[SumAverage(conc_data), Len(conc_data)]

\* a value of the table as the figure holds it
Whole(v) == [ num |-> v, den |-> 1 ]

\* the key sort_values compares
SortKey(r, col) ==
    IF col \in { "compound", "measurement_name" } THEN Rank(r[col]) ELSE r[col]

InsertRow(sorted, r, col) ==
    LET p == Cardinality({ i \in 1..Len(sorted) : SortKey(sorted[i], col) <= SortKey(r, col) })
    IN  SubSeq(sorted, 1, p) \o << r >> \o SubSeq(sorted, p + 1, Len(sorted))

\* the ascending order that keeps rows with equal keys in their order in t
RECURSIVE StableSort(_, _)
StableSort(t, col) ==
    IF t = << >> THEN << >>
    ELSE InsertRow(StableSort(SubSeq(t, 1, Len(t) - 1), col), t[Len(t)], col)

TiedOn(r, q, cols) == \A c \in cols : r[c] = q[c]

\* p with r added: the rows tied with r keep their places in the table, and r
\* takes the place after j of them
PlaceTied(p, r, cols, j) ==
    LET n == Len(p) + 1
        places == SelectSeq([ x \in 1..n |-> x ],
                            LAMBDA x : x = n \/ TiedOn(p[x], r, cols))
        member(l) == IF l <= j THEN p[places[l]]
                     ELSE IF l = j + 1 THEN r
                     ELSE p[places[l - 1]]
    IN  [ x \in 1..n |->
            IF x = n \/ TiedOn(p[x], r, cols)
            THEN member(CHOOSE l \in 1..Len(places) : places[l] = x)
            ELSE p[x] ]

\* the tables that differ from t only in the order of rows tied on cols
RECURSIVE TieOrders(_, _)
TieOrders(t, cols) ==
    IF t = << >> THEN { << >> }
    ELSE LET r == t[Len(t)]
             k == Cardinality({ x \in 1..(Len(t) - 1) : TiedOn(t[x], r, cols) })
         IN  UNION { { PlaceTied(p, r, cols, j) : j \in 0..k } :
                     p \in TieOrders(SubSeq(t, 1, Len(t) - 1), cols) }

\* DataFrame.sort_values(col): ascending with the default kind='quicksort',
\* which leaves the order of rows with equal keys open; the outcomes it can have
sort_values(t, col) == { StableSort(p, col) : p \in TieOrders(t, { col }) }

\* the rows a per-screen trace sorts by concentration are tied when they have
\* the same measurement, screen, compound and concentration
TraceKey == { "measurement_name", "screen", "compound", "concentration" }

\* the marker trace of one (measurement, compound, concentration) of the pooled layout
PooledPoints(conc_data, compound, concentrations, concentration, row, show, colors) ==
    [ row |-> row, col |-> 1, mode |-> "markers",
      x |-> [ i \in 1..Len(conc_data) |-> XPos(concentrations, concentration) ],
      y |-> [ i \in 1..Len(conc_data) |-> Whole(conc_data[i].average) ],
      error_y |-> << >>,
      name |-> IF show THEN compound ELSE "",
      color |-> ColorOf(colors, compound),
      legendgroup |-> compound,
      showlegend |-> show,
      customdata |-> << >> ]

\* its mean segment
PooledMean(conc_data, compound, concentrations, concentration, row, colors) ==
    LET x_pos == XPos(concentrations, concentration)
        mean_value == MeanValue(conc_data)
    IN  [ row |-> row, col |-> 1, mode |-> "lines",
          x |-> << x_pos - 2, x_pos + 2 >>,
          y |-> << mean_value, mean_value >>,
          error_y |-> << >>,
          name |-> "",
          color |-> ColorOf(colors, compound),
          legendgroup |-> "",
          showlegend |-> FALSE,
          customdata |-> << >> ]

\* for concentration in all_concentrations: ... (the k-th on)
RECURSIVE PooledConcentrationLoop(_, _, _, _, _, _, _)
PooledConcentrationLoop(cmd, compound, concentrations, k, row, show, colors) ==
    IF k > Len(concentrations) THEN << >>
    ELSE LET concentration == concentrations[k]
             conc_data == SelectSeq(cmd, LAMBDA r : r.concentration = concentration)
         IN  IF conc_data # << >>
             THEN << PooledPoints(conc_data, compound, concentrations, concentration,
                                  row, show, colors),
                     PooledMean(conc_data, compound, concentrations, concentration,
                                row, colors) >>
                  \o PooledConcentrationLoop(cmd, compound, concentrations, k + 1,
                                             row, FALSE, colors)
             ELSE PooledConcentrationLoop(cmd, compound, concentrations, k + 1,
                                          row, show, colors)

\* for compound in selected_compounds: ... (the j-th on), threading legend_compounds
RECURSIVE PooledCompoundLoop(_, _, _, _, _, _, _)
PooledCompoundLoop(md, compounds, concentrations, j, row, legend, colors) ==
    IF j > Len(compounds) THEN [ traces |-> << >>, legend |-> legend ]
    ELSE LET compound == compounds[j]
             cmd == SelectSeq(md, LAMBDA r : r.compound = compound)
             show == ShowInLegend(compound, legend)
             legend1 == IF cmd # << >> /\ show THEN legend \cup {compound} ELSE legend
             here == IF cmd # << >>
                     THEN PooledConcentrationLoop(cmd, compound, concentrations, 1,
                                                  row, show, colors)
                     ELSE << >>
             rest == PooledCompoundLoop(md, compounds, concentrations, j + 1, row,
                                        legend1, colors)
         IN  [ traces |-> here \o rest.traces, legend |-> rest.legend ]

\* for measurement_idx, measurement in enumerate(selected_measurements): ...
RECURSIVE PooledMeasurementLoop(_, _, _, _, _, _, _)
PooledMeasurementLoop(fd, compounds, measurements, concentrations, i, legend, colors) ==
    IF i > Len(measurements) THEN << >>
    ELSE LET md == SelectSeq(fd, LAMBDA r : r.measurement_name = measurements[i])
             one == PooledCompoundLoop(md, compounds, concentrations, 1, i, legend, colors)
         IN  one.traces \o PooledMeasurementLoop(fd, compounds, measurements,
                                                 concentrations, i + 1, one.legend, colors)

\* the trace of one (measurement, screen, compound) of the per-screen layout;
\* cmd comes from a table in which the order of tied rows has been picked
ScreenTrace(cmd, compound, concentrations, row, col, show, colors) ==
    LET sorted == StableSort(cmd, "concentration")
    IN  [ row |-> row, col |-> col, mode |-> "lines+markers",
          x |-> [ i \in 1..Len(sorted) |-> XPos(concentrations, sorted[i].concentration) ],
          y |-> [ i \in 1..Len(sorted) |-> Whole(sorted[i].average) ],
          error_y |-> [ i \in 1..Len(sorted) |-> sorted[i].SEM ],
          name |-> compound,
          color |-> ColorOf(colors, compound),
          legendgroup |-> compound,
          showlegend |-> show,
          customdata |-> [ i \in 1..Len(sorted) |-> Str(sorted[i].concentration) ] ]

\* for compound in selected_compounds: ... (the j-th on), threading legend_compounds
RECURSIVE ScreenCompoundLoop(_, _, _, _, _, _, _, _)
ScreenCompoundLoop(md, compounds, concentrations, j, row, col, legend, colors) ==
    IF j > Len(compounds) THEN [ traces |-> << >>, legend |-> legend ]
    ELSE LET compound == compounds[j]
             cmd == SelectSeq(md, LAMBDA r : r.compound = compound)
             show == ShowInLegend(compound, legend)
             legend1 == IF cmd # << >> /\ show THEN legend \cup {compound} ELSE legend
             here == IF cmd # << >>
                     THEN << ScreenTrace(cmd, compound, concentrations, row, col,
                                         show, colors) >>
                     ELSE << >>
             rest == ScreenCompoundLoop(md, compounds, concentrations, j + 1, row, col,
                                        legend1, colors)
         IN  [ traces |-> here \o rest.traces, legend |-> rest.legend ]

\* for screen_idx, screen in enumerate(available_screens): ... (the k-th on)
RECURSIVE ScreenLoop(_, _, _, _, _, _, _, _, _)
ScreenLoop(fd, compounds, measurement, concentrations, screens, k, row, legend, colors) ==
    IF k > Len(screens) THEN [ traces |-> << >>, legend |-> legend ]
    ELSE LET screen_data == SelectSeq(fd, LAMBDA r : r.screen = screens[k])
             md == SelectSeq(screen_data, LAMBDA r : r.measurement_name = measurement)
             one == ScreenCompoundLoop(md, compounds, concentrations, 1, row, k,
                                       legend, colors)
             rest == ScreenLoop(fd, compounds, measurement, concentrations, screens,
                                k + 1, row, one.legend, colors)
         IN  [ traces |-> one.traces \o rest.traces, legend |-> rest.legend ]

\* for measurement_idx, measurement in enumerate(selected_measurements): ...
RECURSIVE ScreenMeasurementLoop(_, _, _, _, _, _, _, _)
ScreenMeasurementLoop(fd, compounds, measurements, concentrations, screens, i, legend, colors) ==
    IF i > Len(measurements) THEN << >>
    ELSE LET one == ScreenLoop(fd, compounds, measurements[i], concentrations, screens,
                               1, i, legend, colors)
         IN  one.traces \o ScreenMeasurementLoop(fd, compounds, measurements,
                                                 concentrations, screens, i + 1,
                                                 one.legend, colors)

\* make_subplots rejects a grid without rows or columns, and a spacing (given
\* in hundredths) wider than 1/(n - 1) of the figure
SpacingTooWide(n, spacing) == n > 1 /\ spacing * (n - 1) > 100

make_subplots_raises(rows, cols, vertical_spacing, horizontal_spacing) ==
    \/ rows < 1
    \/ cols < 1
    \/ SpacingTooWide(rows, vertical_spacing)
    \/ SpacingTooWide(cols, horizontal_spacing)

\* update_xaxes(tickmode='array', tickvals=..., ticktext=...) on every panel
XAxes(fd, rows, cols) ==
    [ p \in (1..rows) \X (1..cols) |->
        [ tickvals |-> [ i \in 1..Len(all_concentrations(fd)) |-> 10 * (i - 1) ],
          ticktext |-> concentration_labels(fd) ] ]

\* plot_height = max(400, 250 * num_measurements)
plot_height(num_measurements) == Max2(400, 250 * num_measurements)

Figure(rows, cols, titles, traces, fd) ==
    [ rows |-> rows, cols |-> cols, subplot_titles |-> titles, traces |-> traces,
      height |-> plot_height(rows), xaxes |-> XAxes(fd, rows, cols) ]

\* the chart section: [raised, fig]; raised when make_subplots or a colour
\* lookup raises, and then no figure reaches st.plotly_chart; ties is fd in
\* the order in which the per-screen sorts leave tied rows
BuildChart(fd, compounds, measurements, pool, ties) ==
    LET colors == compound_colors(compounds)
        concentrations == all_concentrations(fd)
        screens == available_screens(fd)
        rows == Len(measurements)
        cols == IF pool THEN 1 ELSE Len(screens)
        grid_raises == IF pool THEN make_subplots_raises(rows, 1, 8, 20)
                       ELSE make_subplots_raises(rows, cols, 8, 5)
        traces == IF pool
                  THEN PooledMeasurementLoop(fd, compounds, measurements,
                                             concentrations, 1, {}, colors)
                  ELSE ScreenMeasurementLoop(ties, compounds, measurements,
                                             concentrations, screens, 1, {}, colors)
        titles == IF ~pool /\ cols > 1
                  THEN [ k \in 1..cols |-> "Screen " \o NatStr(screens[k]) ]
                  ELSE << >>
    IN  IF grid_raises \/ \E t \in 1..Len(traces) : traces[t].color = KeyError
        THEN [ raised |-> TRUE, fig |-> << >> ]
        ELSE [ raised |-> FALSE, fig |-> << Figure(rows, cols, titles, traces, fd) >> ]

---------------------------------------------------------------------------
(* Colour guide, summary and data preview                                  *)

\* the "Compound Colors" section: [raised, entries]; a lookup that raises
\* ends it after the entries already drawn
ColorGuide(compounds) ==
    LET colors == compound_colors(compounds)
        failing == { i \in 1..Len(compounds) : ColorOf(colors, compounds[i]) = KeyError }
        drawn == IF failing = {} THEN Len(compounds) ELSE MinOf(failing) - 1
    IN  IF Len(compounds) <= 1 THEN [ raised |-> FALSE, entries |-> << >> ]
        ELSE [ raised |-> failing # {},
               entries |-> [ i \in 1..drawn |->
                               [ column |-> (i - 1) % 4,
                                 color |-> ColorOf(colors, compounds[i]),
                                 compound |-> compounds[i] ] ] ]

\* the three summary columns
Summary(fd, readout, compounds, measurements) ==
    [ readout |-> readout,
      compounds |-> Len(compounds),
      measurements |-> Len(measurements),
      screens |-> Len(available_screens(fd)),
      total_rows |-> Len(fd),
      concentration_range |->
          IF fd = << >> THEN "nan - nan"
          ELSE FormatFixed(MinOf(Column(fd, "concentration")), 3) \o " - " \o
               FormatFixed(MaxOf(Column(fd, "concentration")), 1),
      compound_rows |->
          [ i \in 1..Len(compounds) |->
              [ compound |-> compounds[i],
                data_points |-> Len(SelectSeq(fd, LAMBDA r : r.compound = compounds[i])) ] ] ]

PageSizes == { 25, 50, 100, 200 }

SortColumns == { "compound", "concentration", "measurement_name", "average", "screen" }

total_pages_floor(n, size) == n \div size + 1

\* total_pages = (len(display_data) - 1) // rows_per_page + 1
total_pages(n, size) == (n - 1) \div size + 1

\* display_data[display_columns] with the numeric columns rounded
PageRow(r) ==
    [ screen |-> r.screen, compound |-> r.compound,
      concentration |-> Round3(r.concentration),
      measurement_name |-> r.measurement_name,
      average |-> Round3(r.average), SEM |-> Round3(r.SEM), STDEV |-> Round3(r.STDEV) ]

\* .iloc[start_idx:end_idx]
ILoc(t, start_idx, end_idx) == SubSeq(t, start_idx + 1, Min2(end_idx, Len(t)))

start_idx(number, size) == (number - 1) * size

end_idx(number, size) == start_idx(number, size) + size

Caption(first, last, total) ==
    "Showing " \o NatStr(first) \o "-" \o NatStr(last) \o " of " \o NatStr(total) \o " rows"

\* the page shown for a sorted, non-empty table
DataPage(sorted, size, number) ==
    LET s == start_idx(number, size)
        e == end_idx(number, size)
        slice == ILoc(sorted, s, e)
    IN  [ total_pages |-> total_pages(Len(sorted), size),
          page_data |-> [ i \in 1..Len(slice) |-> PageRow(slice[i]) ],
          caption |-> Caption(s + 1, Min2(e, Len(sorted)), Len(sorted)),
          info |-> "" ]

\* the branch for an empty table
NoRowsPage ==
    [ total_pages |-> 0, page_data |-> << >>, caption |-> "",
      info |-> "No data matches your current selection." ]

---------------------------------------------------------------------------
(* The memoised functions (st.cache_data)                                  *)

\* data = load_data(): the body runs only when its cache holds nothing
cached_load_data(cache, file) ==
    IF cache = << >> THEN load_data(file) ELSE cache[1]

FilterKey(readout, compounds, measurements) == << readout, compounds, measurements >>

\* get_filtered_data(...) through its cache: a stored key returns the stored table
cached_get_filtered_data(cache, df, readout, compounds, measurements) ==
    LET key == FilterKey(readout, compounds, measurements)
    IN  IF key \in DOMAIN cache THEN cache[key]
        ELSE get_filtered_data(df, readout, compounds, measurements)

StoreFiltered(cache, readout, compounds, measurements, table) ==
    LET key == FilterKey(readout, compounds, measurements)
    IN  IF key \in DOMAIN cache THEN cache ELSE (key :> table) @@ cache

---------------------------------------------------------------------------
(* Widget inputs                                                           *)

InjectiveSeqs(S, n) ==
    { s \in UNION { [1..k -> S] : k \in 0..n } :
        \A i, j \in 1..Len(s) : i # j => s[i] # s[j] }

Prefixes(s) == { SubSeq(s, 1, k) : k \in 0..Len(s) }

\* what st.multiselect can return: the options picked so far, in click order
\* (the first MaxSel options in any order, and the options picked from the
\* top down)
Selections(options) ==
    InjectiveSeqs(Range(SubSeq(options, 1, Min2(Len(options), MaxSel))), MaxSel)
    \cup Prefixes(options)

\* the ticked checkboxes, in option order
Ticked(options, ticks) == SelectSeq(options, LAMBDA m : m \in ticks)

\* if not selected_compounds: st.warning(...); st.stop()
compound_guard_stops(compounds) == compounds = << >>

measurement_guard_missing(measurements) == FALSE

\* if not selected_measurements: st.warning(...); st.stop()
measurement_guard_stops(measurements) == measurements = << >>

CompoundWarning == "warning: Please select at least one compound to display data."

MeasurementWarning == "warning: Please select at least one measurement to display."

---------------------------------------------------------------------------
(* The render pass                                                         *)

\* A widget the pass does not reach is not drawn, and starts from its default
\* when it is drawn again.
DefaultRowsPerPage == 50

DefaultSortBy == "concentration"

PreviewWidgetsReset ==
    /\ show_data' = FALSE
    /\ rows_per_page' = DefaultRowsPerPage
    /\ sort_by' = DefaultSortBy
    /\ page' = 1

NoOutputs ==
    /\ fig' = << >>
    /\ color_guide' = << >>
    /\ summary' = << >>
    /\ display_data' = << >>
    /\ preview' = << >>
    /\ PreviewWidgetsReset

\* st.stop() at the compound guard
StopAtCompoundGuard(readout, compounds) ==
    /\ selected_readout' = readout
    /\ selected_compounds' = compounds
    /\ measurement_options' = << >>
    /\ selected_measurements' = << >>
    /\ pool_screens' = FALSE
    /\ filter_ran' = FALSE
    /\ filtered_data' = << >>
    /\ NoOutputs
    /\ page_elements' = << CompoundWarning >>
    /\ status' = "stopped_no_compounds"
    /\ pc' = "idle"
    /\ UNCHANGED filter_cache

\* st.stop() at the measurement guard
StopAtMeasurementGuard(readout, compounds, options, measurements) ==
    /\ selected_readout' = readout
    /\ selected_compounds' = compounds
    /\ measurement_options' = options
    /\ selected_measurements' = measurements
    /\ pool_screens' = FALSE
    /\ filter_ran' = FALSE
    /\ filtered_data' = << >>
    /\ NoOutputs
    /\ page_elements' = << MeasurementWarning >>
    /\ status' = "stopped_no_measurements"
    /\ pc' = "idle"
    /\ UNCHANGED filter_cache

\* the data preview section, after the summary
DataPreview(fd, show, size, column, number) ==
    IF ~show
    THEN /\ PreviewWidgetsReset
         /\ display_data' = << >>
         /\ preview' = << >>
    ELSE \E sorted \in sort_values(fd, column) :
             /\ show_data' = TRUE
             /\ rows_per_page' = size
             /\ sort_by' = column
             /\ display_data' = sorted
             /\ IF Len(sorted) > 0
                THEN /\ number \in 1..total_pages(Len(sorted), size)
                     /\ page' = number
                     /\ preview' = << DataPage(sorted, size, number) >>
                ELSE /\ page' = 1
                     /\ preview' = << NoRowsPage >>

\* data = load_data() at the start of a pass; a rerun starts a pass whatever
\* the script was doing, and the page keeps what it shows until it is redrawn
StartPass ==
    LET df == cached_load_data(load_data_cache, csv_file)
    IN  /\ load_data_cache = << >> => n_loads < MaxLoads
        /\ load_data_cache' = << df >>
        /\ n_loads' = IF load_data_cache = << >> THEN n_loads + 1 ELSE n_loads
        /\ data' = df
        /\ pc' = "loaded"
        /\ UNCHANGED << csv_file, filter_cache, selected_readout, selected_compounds,
                        measurement_options, selected_measurements, pool_screens,
                        filter_ran, filtered_data, fig, color_guide, summary,
                        show_data, rows_per_page, sort_by, page, display_data,
                        preview, page_elements, status >>

\* filtered_data = get_filtered_data(...) through the cache; what the previous
\* pass drew is being replaced, and the data preview widgets hold the values
\* they will be read with
Filter(readout, compounds, options, measurements, pool, show, size, column, number) ==
    LET fd == cached_get_filtered_data(filter_cache, data, readout, compounds,
                                       measurements)
    IN  /\ \/ FilterKey(readout, compounds, measurements) \in DOMAIN filter_cache
           \/ Cardinality(DOMAIN filter_cache) < MaxCacheEntries
        /\ number \in 1..(IF show /\ Len(fd) > 0 THEN total_pages(Len(fd), size) ELSE 1)
        /\ selected_readout' = readout
        /\ selected_compounds' = compounds
        /\ measurement_options' = options
        /\ selected_measurements' = measurements
        /\ pool_screens' = pool
        /\ filter_ran' = TRUE
        /\ filtered_data' = fd
        /\ filter_cache' = StoreFiltered(filter_cache, readout, compounds, measurements, fd)
        /\ fig' = << >>
        /\ color_guide' = << >>
        /\ summary' = << >>
        /\ display_data' = << >>
        /\ preview' = << >>
        /\ show_data' = show
        /\ rows_per_page' = size
        /\ sort_by' = column
        /\ page' = number
        /\ page_elements' = << >>
        /\ status' = "filtered"
        /\ pc' = "filtered"

\* the script from the read-out selectbox to get_filtered_data, with the
\* widgets at the given values
Widgets(readout, compounds, ticks, pool, show, size, column, number) ==
    /\ pc = "loaded"
    /\ UNCHANGED << csv_file, load_data_cache, n_loads, data >>
    /\ readout \in Column(data, "readout")
    /\ Range(compounds) \subseteq Column(ReadoutData(data, readout), "compound")
    /\ ticks \subseteq all_measurement_options(data, readout, compounds)
    /\ IF compound_guard_stops(compounds)
       THEN StopAtCompoundGuard(readout, compounds)
       ELSE LET options == MeasurementOptions(data, readout, compounds)
                measurements == Ticked(options, ticks)
            IN  IF measurement_guard_stops(measurements)
                THEN StopAtMeasurementGuard(readout, compounds, options, measurements)
                ELSE Filter(readout, compounds, options, measurements,
                            pool, show, size, column, number)

\* the script from the chart to the footer
Draw ==
    LET guide == ColorGuide(selected_compounds)
    IN  /\ pc = "filtered"
        /\ pc' = "idle"
        /\ UNCHANGED << csv_file, load_data_cache, filter_cache, n_loads, data,
                        selected_readout, selected_compounds, measurement_options,
                        selected_measurements, pool_screens, filter_ran,
                        filtered_data >>
        /\ \E ties \in TieOrders(filtered_data, TraceKey) :
           LET chart == BuildChart(filtered_data, selected_compounds,
                                   selected_measurements, pool_screens, ties)
           IN  IF chart.raised
               THEN \* the exception leaves the script: nothing after the chart runs
                    /\ NoOutputs
                    /\ page_elements' = << "exception" >>
                    /\ status' = "chart_exception"
               ELSE IF guide.raised
               THEN /\ fig' = chart.fig
                    /\ color_guide' = guide.entries
                    /\ summary' = << >>
                    /\ display_data' = << >>
                    /\ preview' = << >>
                    /\ PreviewWidgetsReset
                    /\ page_elements' = << "plotly_chart", "Compound Colors", "exception" >>
                    /\ status' = "color_guide_exception"
               ELSE /\ fig' = chart.fig
                    /\ color_guide' = guide.entries
                    /\ summary' = << Summary(filtered_data, selected_readout,
                                             selected_compounds, selected_measurements) >>
                    /\ DataPreview(filtered_data, show_data, rows_per_page, sort_by, page)
                    /\ page_elements' =
                           << "plotly_chart" >> \o
                           (IF Len(selected_compounds) > 1
                            THEN << "Compound Colors" >> ELSE << >>) \o
                           << "Selection Summary", "Data Preview" >>
                    /\ status' = "rendered"

\* the pass runs on after the user has changed the sidebar widgets; the data
\* preview widgets keep their values (the pool checkbox is only drawn, and a
\* measurement can only be ticked, in a pass that gets that far)
SidebarInteraction ==
    /\ pc = "loaded"
    /\ \E readout \in Range(readout_options(data)) :
       \E compounds \in Selections(compound_options(data, readout)) :
       \E ticks \in SUBSET Range(MeasurementOptions(data, readout, compounds)) :
       \E pool \in (IF ticks = {} THEN { FALSE } ELSE BOOLEAN) :
           Widgets(readout, compounds, ticks, pool, show_data, rows_per_page,
                   sort_by, 1)

\* the pass runs on after the user has changed the data preview widgets of a
\* page that was drawn to the end; the sidebar widgets keep their values
PreviewInteraction ==
    /\ pc = "loaded"
    /\ status = "rendered"
    /\ \E show \in BOOLEAN :
       \E size \in (IF show THEN PageSizes ELSE { DefaultRowsPerPage }) :
       \E column \in (IF show THEN SortColumns ELSE { DefaultSortBy }) :
       \E number \in 1..(IF show THEN total_pages(Len(filtered_data), size) ELSE 1) :
            Widgets(selected_readout, selected_compounds,
                    Range(selected_measurements), pool_screens,
                    show, size, column, number)

\* the CSV file is replaced on disk
WriteCsv ==
    /\ csv_file' \in CsvFiles(4, MaxReloadRows) \ { csv_file }
    /\ UNCHANGED << load_data_cache, filter_cache, data, selected_readout,
                    selected_compounds, measurement_options, selected_measurements,
                    pool_screens, filter_ran, filtered_data, fig, color_guide,
                    summary, show_data, rows_per_page, sort_by, page, display_data,
                    preview, page_elements, status, n_loads, pc >>

\* "Clear cache" (from any session, or a restart of the server): every
\* st.cache_data store is emptied, whatever a running script is doing
ClearCache ==
    /\ load_data_cache' = << >>
    /\ filter_cache' = << >>
    /\ UNCHANGED << csv_file, data, selected_readout, selected_compounds,
                    measurement_options, selected_measurements, pool_screens,
                    filter_ran, filtered_data, fig, color_guide, summary, show_data,
                    rows_per_page, sort_by, page, display_data, preview,
                    page_elements, status, n_loads, pc >>

\* nothing loaded, cached or drawn yet, every widget at its default
Blank ==
    /\ load_data_cache = << >>
    /\ filter_cache = << >>
    /\ data = << >>
    /\ filtered_data = << >>
    /\ selected_readout = ""
    /\ selected_compounds = << >>
    /\ measurement_options = << >>
    /\ selected_measurements = << >>
    /\ pool_screens = FALSE
    /\ filter_ran = FALSE
    /\ fig = << >>
    /\ color_guide = << >>
    /\ summary = << >>
    /\ show_data = FALSE
    /\ rows_per_page = DefaultRowsPerPage
    /\ sort_by = DefaultSortBy
    /\ page = 1
    /\ display_data = << >>
    /\ preview = << >>
    /\ page_elements = << >>
    /\ status = "start"
    /\ n_loads = 0
    /\ pc = "idle"

Init ==
    /\ csv_file \in CsvFiles(Len(CandidateRows), MaxRows) \cup { WideCsv }
    /\ Blank

\* the dashboard driven from the sidebar, the data preview left closed
Next == StartPass \/ SidebarInteraction \/ Draw

Spec == Init /\ [][Next]_vars

\* the dashboard with every widget in use, on the files of the voltage rows
InitDashboard ==
    /\ csv_file \in CsvFiles(5, MaxRows)
    /\ Blank

NextDashboard == StartPass \/ SidebarInteraction \/ PreviewInteraction \/ Draw

SpecDashboard == InitDashboard /\ [][NextDashboard]_vars

\* the dashboard with the file changing on disk and the caches being cleared
InitReload ==
    /\ csv_file \in CsvFiles(4, MaxReloadRows)
    /\ Blank

NextReload == StartPass \/ SidebarInteraction \/ Draw \/ WriteCsv \/ ClearCache

SpecReload == InitReload /\ [][NextReload]_vars

---------------------------------------------------------------------------
(* The data preview on tables of many rows                                 *)

\* the pass has sorted the filtered table; the data preview box is ticked
InitPage ==
    /\ csv_file = << >>
    /\ load_data_cache = << >>
    /\ filter_cache = << >>
    /\ selected_readout = "voltage"
    /\ selected_compounds = << "A" >>
    /\ measurement_options = << "Rising Slope" >>
    /\ selected_measurements = << "Rising Slope" >>
    /\ pool_screens = FALSE
    /\ filter_ran = TRUE
    /\ fig = << >>
    /\ color_guide = << >>
    /\ summary = << >>
    /\ show_data = TRUE
    /\ rows_per_page = DefaultRowsPerPage
    /\ sort_by = DefaultSortBy
    /\ page = 1
    /\ preview = << >>
    /\ page_elements = << >>
    /\ status = "sorted"
    /\ n_loads = 0
    /\ pc = "filtered"
    /\ \E n \in 1..MaxPageRows :
         /\ data = PageTable(n)
         /\ filtered_data = PageTable(n)
         /\ display_data = PageTable(n)

\* the pagination of the sorted table, at a page size and a page number the
\* widgets allow
ShowPage ==
    /\ \E size \in PageSizes :
       \E number \in 1..total_pages(Len(display_data), size) :
           /\ rows_per_page' = size
           /\ page' = number
           /\ preview' = << DataPage(display_data, size, number) >>
    /\ status' = "paged"
    /\ UNCHANGED << csv_file, load_data_cache, filter_cache, data, selected_readout,
                    selected_compounds, measurement_options, selected_measurements,
                    pool_screens, filter_ran, filtered_data, fig, color_guide,
                    summary, show_data, sort_by, display_data, page_elements,
                    n_loads, pc >>

NextPage == ShowPage

SpecPage == InitPage /\ [][NextPage]_vars

---------------------------------------------------------------------------
(* get_filtered_data called directly                                       *)

Readouts == { "calcium", "voltage", "other" }

InitFilter ==
    /\ csv_file \in CsvFiles(Len(CandidateRows), MaxRows)
    /\ Blank

\* data = load_data() and a call of get_filtered_data, with any read-out, any
\* compounds and any measurements of the file (none included); both calls go
\* through their caches
CallFilter ==
    LET df == cached_load_data(load_data_cache, csv_file)
    IN  \E readout \in Readouts :
        \E compounds \in InjectiveSeqs(Column(df, "compound"), MaxSel) :
        \E measurements \in InjectiveSeqs(Column(df, "measurement_name"), MaxSel) :
            LET fd == cached_get_filtered_data(filter_cache, df, readout, compounds,
                                               measurements)
            IN  /\ \/ FilterKey(readout, compounds, measurements) \in DOMAIN filter_cache
                   \/ Cardinality(DOMAIN filter_cache) < MaxCacheEntries
                /\ load_data_cache' = << df >>
                /\ n_loads' = IF load_data_cache = << >> THEN n_loads + 1 ELSE n_loads
                /\ data' = df
                /\ selected_readout' = readout
                /\ selected_compounds' = compounds
                /\ selected_measurements' = measurements
                /\ filtered_data' = fd
                /\ filter_cache' = StoreFiltered(filter_cache, readout, compounds,
                                                 measurements, fd)
                /\ filter_ran' = TRUE
                /\ status' = "called"
                /\ UNCHANGED << csv_file, measurement_options, pool_screens, fig,
                                color_guide, summary, show_data, rows_per_page,
                                sort_by, page, display_data, preview, page_elements,
                                pc >>

NextFilter == CallFilter

SpecFilter == InitFilter /\ [][NextFilter]_vars

---------------------------------------------------------------------------
(* Properties                                                              *)

Traces == IF fig = << >> THEN << >> ELSE fig[1].traces

\* the traces that carry data points of a compound (not the mean segments)
DataTraces == { t \in 1..Len(Traces) : Traces[t].legendgroup # "" }

MeanTraces == { t \in 1..Len(Traces) : Traces[t].legendgroup = "" }

FilteredRows == { filtered_data[i] : i \in 1..Len(filtered_data) }

\* the number of distinct concentrations of the filtered table below c
Position(c) == Cardinality({ d \in Column(filtered_data, "concentration") : d < c })

Screens == Column(filtered_data, "screen")

\* the screen of panel column k: the k-th smallest screen of the filtered table
ScreenOfColumn(k) ==
    CHOOSE s \in Screens : Cardinality({ u \in Screens : u < s }) = k - 1

\* the rows of the filtered table a trace draws
RowsOfTrace(t) ==
    { r \in FilteredRows :
        /\ r.measurement_name = selected_measurements[Traces[t].row]
        /\ r.compound = Traces[t].legendgroup
        /\ pool_screens \/ r.screen = ScreenOfColumn(Traces[t].col) }

\* C1: in either layout, every selected compound with a trace in the figure
\* has exactly one trace with its legendgroup and showlegend = true, and no
\* mean segment is shown in the legend.
C1_LegendOncePerCompound ==
    fig # << >> =>
        /\ \A c \in Range(selected_compounds) :
             (\E t \in DataTraces : Traces[t].legendgroup = c) =>
                 Cardinality({ t \in 1..Len(Traces) :
                                 Traces[t].legendgroup = c /\ Traces[t].showlegend }) = 1
        /\ \A t \in DataTraces : Traces[t].legendgroup \in Range(selected_compounds)
        /\ \A t \in MeanTraces : ~Traces[t].showlegend

\* a pooled figure in which one compound has data traces in two panels and a
\* mean segment
C1_Witness ==
    /\ fig # << >>
    /\ pool_screens
    /\ MeanTraces # {}
    /\ \E t, u \in DataTraces :
         /\ Traces[t].legendgroup = Traces[u].legendgroup
         /\ Traces[t].row # Traces[u].row

\* C2: a pass whose compound selection or measurement selection is empty
\* ends at the guard with the warning, without calling get_filtered_data and
\* without a chart, a colour guide, a summary or a data table; the empty
\* selection stays empty.
C2_EmptySelectionHalts ==
    status # "start" =>
        /\ selected_compounds = << >> =>
               /\ status = "stopped_no_compounds"
               /\ page_elements = << CompoundWarning >>
        /\ selected_compounds # << >> /\ selected_measurements = << >> =>
               /\ status = "stopped_no_measurements"
               /\ page_elements = << MeasurementWarning >>
        /\ selected_compounds = << >> \/ selected_measurements = << >> =>
               /\ ~filter_ran
               /\ filtered_data = << >>
               /\ fig = << >>
               /\ color_guide = << >>
               /\ summary = << >>
               /\ display_data = << >>
               /\ preview = << >>

\* a pass stopped at the measurement guard after an earlier pass had rendered
C2_Witness ==
    /\ status = "stopped_no_measurements"
    /\ selected_compounds # << >>
    /\ measurement_options # << >>
    /\ DOMAIN filter_cache # {}

\* the measurements present for the selected read-out and compounds
PresentMeasurements ==
    { data[i].measurement_name :
        i \in { j \in 1..Len(data) : /\ data[j].readout = selected_readout
                                      /\ data[j].compound \in Range(selected_compounds) } }

Whitelist ==
    IF selected_readout = "calcium"
    THEN { "Rising Slope", "Falling Slope", "Pulse Width 50%", "Area Under the Curve" }
    ELSE IF selected_readout = "voltage"
    THEN { "Pulse Width 10%", "Pulse Width 50%", "Pulse Width 90%", "Rising Slope",
           "Falling Slope", "Triangulation", "Amplitude" }
    ELSE PresentMeasurements

\* C3: the measurements offered are exactly the present measurements that are
\* on the read-out's whitelist, in sorted order, and only offered measurements
\* are selected.
C3_MeasurementResolution ==
    status \notin { "start", "stopped_no_compounds" } =>
        /\ Range(measurement_options) = PresentMeasurements \cap Whitelist
        /\ \A i, j \in 1..Len(measurement_options) :
             i < j => Rank(measurement_options[i]) < Rank(measurement_options[j])
        /\ Range(selected_measurements) \subseteq Range(measurement_options)

\* a voltage pass where a present measurement is off the whitelist
C3_Witness ==
    /\ status = "rendered"
    /\ selected_readout = "voltage"
    /\ "Foo" \in PresentMeasurements
    /\ "Foo" \notin Range(measurement_options)
    /\ measurement_options # << >>

\* C4: every data point sits at ten times the rank of its concentration among
\* the distinct concentrations of the whole filtered table, and every panel
\* has these ranks as tick values and the concentrations as tick labels.
C4_SharedConcentrationAxis ==
    fig # << >> =>
        /\ \A t \in DataTraces : \A i \in 1..Len(Traces[t].x) :
             \E r \in RowsOfTrace(t) :
                 /\ Traces[t].y[i] = Whole(r.average)
                 /\ Traces[t].x[i] = 10 * Position(r.concentration)
        /\ DOMAIN fig[1].xaxes = (1..fig[1].rows) \X (1..fig[1].cols)
        /\ \A p \in DOMAIN fig[1].xaxes :
             /\ Len(fig[1].xaxes[p].tickvals) = Cardinality(Column(filtered_data, "concentration"))
             /\ Len(fig[1].xaxes[p].ticktext) = Len(fig[1].xaxes[p].tickvals)
             /\ \A i \in 1..Len(fig[1].xaxes[p].tickvals) :
                  /\ fig[1].xaxes[p].tickvals[i] = 10 * (i - 1)
                  /\ \E c \in Column(filtered_data, "concentration") :
                       /\ Position(c) = i - 1
                       /\ fig[1].xaxes[p].ticktext[i] = Str(c)

\* a per-screen figure with two panels, where the only point of one panel is
\* in the second slot because the other panel holds a smaller concentration
C4_Witness ==
    /\ fig # << >>
    /\ ~pool_screens
    /\ fig[1].cols = 2
    /\ \E t \in DataTraces : Traces[t].x = << 10 >>
    /\ \E t \in DataTraces : Traces[t].x = << 0 >>

\* the last pass that got to the widgets ran the chart section
PassReachedChart ==
    status \in { "rendered", "chart_exception", "color_guide_exception" }

\* the rows of the filtered table of a (measurement, compound, concentration),
\* in the order of the table
TripleTable(k, c, conc) ==
    SelectSeq(filtered_data, LAMBDA r : /\ r.measurement_name = selected_measurements[k]
                                        /\ r.compound = c
                                        /\ r.concentration = conc)

\* the rows of the filtered table of a (measurement, compound, concentration)
TripleRows(k, c, conc) ==
    { r \in FilteredRows : /\ r.measurement_name = selected_measurements[k]
                           /\ r.compound = c
                           /\ r.concentration = conc }

\* the marker traces the figure has for the triple, and its mean segments
TripleMarkers(k, c, conc) ==
    { t \in DataTraces : /\ Traces[t].mode = "markers"
                         /\ Traces[t].row = k
                         /\ Traces[t].col = 1
                         /\ Traces[t].legendgroup = c
                         /\ \A i \in 1..Len(Traces[t].x) :
                              Traces[t].x[i] = 10 * Position(conc) }

TripleSegments(k, c, conc) ==
    { t \in MeanTraces : /\ Traces[t].mode = "lines"
                         /\ Traces[t].row = k
                         /\ Traces[t].col = 1
                         /\ \E i \in 1..Min2(Len(selected_compounds), Len(Set1)) :
                              selected_compounds[i] = c /\ Traces[t].color = Set1[i]
                         /\ Traces[t].x = << 10 * Position(conc) - 2,
                                             10 * Position(conc) + 2 >> }

\* what the pooled figure holds for each triple
PooledFigureHoldsTriples ==
    /\ fig # << >>
    /\ fig[1].rows = Len(selected_measurements)
    /\ fig[1].cols = 1
    /\ \A k \in 1..Len(selected_measurements) :
       \A c \in Range(selected_compounds) :
       \A conc \in Column(filtered_data, "concentration") :
           LET rows == TripleRows(k, c, conc)
               markers == TripleMarkers(k, c, conc)
               segments == TripleSegments(k, c, conc)
           IN  IF rows = {}
               THEN markers = {} /\ segments = {}
               ELSE /\ Cardinality(markers) = 1
                    /\ Cardinality(segments) = 1
                    /\ \A t \in markers :
                         /\ Len(Traces[t].y) = Cardinality(rows)
                         /\ Len(Traces[t].x) = Cardinality(rows)
                         /\ \A r \in rows : \E i \in 1..Len(Traces[t].y) :
                              Traces[t].y[i] = Whole(r.average)
                    /\ \A t \in segments :
                         /\ Traces[t].y[1] = Traces[t].y[2]
                         /\ Traces[t].y[1] =
                              DivCount[pairwise_sum[Averages(TripleTable(k, c, conc))],
                                       Cardinality(rows)]
    /\ \A t \in 1..Len(Traces) :
         \E k \in 1..Len(selected_measurements) :
         \E c \in Range(selected_compounds) :
         \E conc \in Column(filtered_data, "concentration") :
             t \in TripleMarkers(k, c, conc) \cup TripleSegments(k, c, conc)

\* C5: a pooled pass that reaches the chart puts, for every (measurement,
\* compound, concentration) with matching rows, one marker trace with one
\* point per row and one mean segment centred on the concentration's slot in
\* the measurement's panel, and nothing for a triple without rows.
C5_PooledTraces ==
    PassReachedChart /\ pool_screens => PooledFigureHoldsTriples

\* the rows of the filtered table of a (measurement, screen, compound)
PanelRows(k, col, c) ==
    { r \in FilteredRows : /\ r.measurement_name = selected_measurements[k]
                           /\ r.screen = ScreenOfColumn(col)
                           /\ r.compound = c }

PanelTraces(k, col, c) ==
    { t \in 1..Len(Traces) : /\ Traces[t].row = k
                             /\ Traces[t].col = col
                             /\ Traces[t].legendgroup = c }

\* what the per-screen figure holds for each (measurement, screen, compound)
ScreenFigureHoldsPanels ==
    /\ fig # << >>
    /\ fig[1].rows = Len(selected_measurements)
    /\ fig[1].cols = Cardinality(Screens)
    /\ \A k \in 1..Len(selected_measurements) :
       \A col \in 1..Cardinality(Screens) :
       \A c \in Range(selected_compounds) :
           LET rows == PanelRows(k, col, c)
               traces == PanelTraces(k, col, c)
           IN  IF rows = {}
               THEN traces = {}
               ELSE /\ Cardinality(traces) = 1
                    /\ \A t \in traces :
                         /\ Len(Traces[t].x) = Cardinality(rows)
                         /\ Len(Traces[t].y) = Cardinality(rows)
                         /\ Len(Traces[t].error_y) = Cardinality(rows)
                         /\ \A i, j \in 1..Len(Traces[t].x) :
                              i < j => Traces[t].x[i] <= Traces[t].x[j]
                         /\ \A r \in rows : \E i \in 1..Len(Traces[t].x) :
                              /\ Traces[t].x[i] = 10 * Position(r.concentration)
                              /\ Traces[t].y[i] = Whole(r.average)
                              /\ Traces[t].error_y[i] = r.SEM
    /\ \A t \in 1..Len(Traces) :
         /\ Traces[t].row \in 1..Len(selected_measurements)
         /\ Traces[t].col \in 1..Cardinality(Screens)
         /\ Traces[t].legendgroup \in Range(selected_compounds)

\* C6: a per-screen pass that reaches the chart builds a grid of one row per
\* selected measurement and one column per screen of the filtered table, with
\* exactly one trace per (measurement, screen, compound) that has rows, holding
\* those rows by ascending concentration with y = average and error = SEM.
C6_PerScreenTraces ==
    PassReachedChart /\ ~pool_screens => ScreenFigureHoldsPanels

RECURSIVE SumOfPageCounts(_, _, _)
SumOfPageCounts(p, size, n) ==
    IF p = 0 THEN 0
    ELSE (Min2(p * size, n) - (p - 1) * size) + SumOfPageCounts(p - 1, size, n)

\* C7: for a sorted table of n >= 1 rows, total_pages is the ceiling of
\* n / rows_per_page, the page shown is the slice of rows (page-1)*size+1 ..
\* min(page*size, n) of the sorted table, the counts of the pages 1..total_pages
\* sum to n, and the caption names that range.
C7_Pagination ==
    status = "paged" =>
        LET n == Len(display_data)
            tp == preview[1].total_pages
            first == (page - 1) * rows_per_page + 1
            last == Min2(page * rows_per_page, n)
        IN  /\ n >= 1
            /\ \A i \in 1..(n - 1) :
                 display_data[i].concentration <= display_data[i + 1].concentration
            /\ tp * rows_per_page >= n
            /\ (tp - 1) * rows_per_page < n
            /\ page \in 1..tp
            /\ 1 <= first /\ first <= last /\ last <= n
            /\ Len(preview[1].page_data) = last - first + 1
            /\ \A i \in 1..Len(preview[1].page_data) :
                 preview[1].page_data[i] = PageRow(display_data[first + i - 1])
            /\ SumOfPageCounts(tp, rows_per_page, n) = n
            /\ preview[1].caption =
                 "Showing " \o NatStr(first) \o "-" \o NatStr(last) \o " of "
                 \o NatStr(n) \o " rows"

\* the last of three pages, shorter than the page size
C7_Witness ==
    /\ status = "paged"
    /\ rows_per_page = 25
    /\ Len(display_data) = 60
    /\ page = 3
    /\ preview[1].total_pages = 3
    /\ Len(preview[1].page_data) = 10

\* C8: every table the cache of get_filtered_data holds is what filtering
\* the dataset the script has loaded with its key gives, and so is the table
\* a pass got from the cache for its selections.
C8_CacheSound ==
    /\ \A key \in DOMAIN filter_cache :
         filter_cache[key] = get_filtered_data(data, key[1], key[2], key[3])
    /\ filter_ran /\ pc \in { "filtered", "idle" } =>
         filtered_data = get_filtered_data(data, selected_readout, selected_compounds,
                                           selected_measurements)

\* C9: a pass in which building the chart raises still shows a message for
\* the error, the selection summary and the data preview section.
C9_ChartFailureIsolated ==
    PassReachedChart /\ BuildChart(filtered_data, selected_compounds, selected_measurements,
                             pool_screens, filtered_data).raised =>
        /\ \E i \in 1..Len(page_elements) : page_elements[i] = "error"
        /\ summary # << >>
        /\ \E i \in 1..Len(page_elements) : page_elements[i] = "Selection Summary"
        /\ \E i \in 1..Len(page_elements) : page_elements[i] = "Data Preview"

\* C10: get_filtered_data returns the rows of the read-out that pass every
\* membership test, an empty compounds or measurements collection passing
\* every row.
C10_FilterPassThrough ==
    status = "called" =>
        filtered_data =
            SelectSeq(data, LAMBDA r :
                /\ r.readout = selected_readout
                /\ selected_compounds = << >> \/ r.compound \in Range(selected_compounds)
                /\ selected_measurements = << >>
                     \/ r.measurement_name \in Range(selected_measurements))

\* the palette entry at the compound's position in the selection, if any
PaletteEntries(compound) ==
    { Set1[i] : i \in { j \in 1..Min2(Len(selected_compounds), Len(Set1)) :
                          selected_compounds[j] = compound } }

\* C11: in a pass that reaches the chart, every selected compound has the
\* palette entry at its position in the selection as its colour, no colour
\* lookup of the chart or of the colour guide raises, and every trace and
\* every colour guide entry of a compound carries that colour.
C11_ColourAssignment ==
    PassReachedChart =>
        /\ \A i \in 1..Len(selected_compounds) :
             ColorOf(compound_colors(selected_compounds), selected_compounds[i])
                 \in PaletteEntries(selected_compounds[i])
        /\ status \notin { "chart_exception", "color_guide_exception" }
        /\ \A t \in DataTraces :
             Traces[t].color \in PaletteEntries(Traces[t].legendgroup)
        /\ \A i \in 1..Len(color_guide) :
             color_guide[i].color \in PaletteEntries(color_guide[i].compound)

\* C12: a pass that gets past both guards has a filtered table with at least
\* one row, hence one screen and one concentration; a per-screen figure has
\* at least one column, the summary has a defined concentration range, and
\* the data preview never shows "No data matches your current selection.".
C12_FilteredTableNonEmpty ==
    status = "filtered" \/ PassReachedChart =>
        /\ filter_ran
        /\ Len(filtered_data) >= 1
        /\ Screens # {}
        /\ Column(filtered_data, "concentration") # {}
        /\ fig # << >> =>
             /\ fig[1].cols >= 1
             /\ ~pool_screens => fig[1].cols = Cardinality(Screens)
             /\ \A p \in DOMAIN fig[1].xaxes : Len(fig[1].xaxes[p].tickvals) >= 1
        /\ summary # << >> =>
             /\ summary[1].total_rows >= 1
             /\ summary[1].screens >= 1
             /\ summary[1].concentration_range # "nan - nan"
        /\ status = "rendered" /\ show_data =>
             /\ Len(display_data) >= 1
             /\ preview # << >>
             /\ preview[1].info = ""
             /\ preview[1].total_pages >= 1
             /\ Len(preview[1].page_data) >= 1

\* a per-screen pass with the data table shown, whose selection leaves out
\* rows of the loaded dataset
C12_Witness ==
    /\ status = "rendered"
    /\ ~pool_screens
    /\ show_data
    /\ preview # << >>
    /\ Len(filtered_data) >= 1
    /\ Len(filtered_data) < Len(data)
    /\ Len(selected_measurements) < Len(measurement_options)

====
